---- MODULE Spec2Model ----
(***************************************************************************)
(* Backend startup supervisor of LocalBook (src-tauri/src/lib.rs).         *)
(*                                                                         *)
(* One background task (the async block spawned by setup_backend) runs     *)
(* ensure_ollama_running, ensure_required_models, start_backend and        *)
(* wait_for_backend_ready in sequence and writes the shared BackendState   *)
(* (process, ready, status: three separate mutexes).  The tauri commands   *)
(* is_backend_ready, get_backend_status and check_backend_health run       *)
(* concurrently with it.                                                   *)
(*                                                                         *)
(* Strings built with format! are sequences of their pieces, Option<T> is  *)
(* a sequence of length 0 or 1, paths are sequences of components.         *)
(* Loop counters and per-call logs live in a frame record per function     *)
(* and are dropped when the function returns.  Mutex poisoning cannot      *)
(* happen (no code panics while holding a lock), so lock() always yields   *)
(* Ok once the mutex is free.  The build is the unix one (cfg!).           *)
(***************************************************************************)
EXTENDS Integers, Sequences, FiniteSets, TLC

None == <<>>
Some(x) == <<x>>

(* ---------------- program constants ---------------- *)

\* lib.rs:127-131
REQUIRED_MODELS ==
  << <<"olmo-3:7b-instruct", "Main AI model (~4.5GB)">>,
     <<"phi4-mini:latest", "Fast AI model (~2.5GB)">>,
     <<"snowflake-arctic-embed2", "Embedding model (~1.2GB)">> >>

NumModels == Len(REQUIRED_MODELS)

\* lib.rs:180-185
ollama_paths ==
  << "/opt/homebrew/bin/ollama",
     "/usr/local/bin/ollama",
     "/Applications/Ollama.app/Contents/Resources/ollama",
     "ollama" >>

\* lib.rs:213  for attempt in 1..=10
OllamaWaitAttempts == 10

\* lib.rs:390  wait_for_backend_ready(30)
max_attempts == 30

\* lib.rs:255-259 (unix build)
backend_exe_name == "localbook-backend"

\* value of app_handle.path().resource_dir() when it resolves
resource_dir == <<"Resources">>

\* lib.rs:266-276
candidate_paths ==
  << resource_dir \o <<"backend", "localbook-backend", backend_exe_name>>,
     resource_dir \o <<"resources", "backend", "localbook-backend", backend_exe_name>> >>

\* Path::parent
Parent(p) == IF Len(p) = 0 THEN None ELSE Some(SubSeq(p, 1, Len(p) - 1))

\* the stage strings written by the task, in the order the spec lists them
Stages ==
  << "starting", "starting_ollama", "checking_models", "downloading_model",
     "starting_backend", "waiting_for_backend", "ready", "error" >>

StageSet == { Stages[k] : k \in 1..Len(Stages) }

Terminal == {"ready", "error"}

(* ---------------- results of the external calls ---------------- *)

Ok(v) == [tag |-> "Ok", val |-> <<v>>]
Err(e) == [tag |-> "Err", val |-> <<e>>]
NoResult == [tag |-> "none", val |-> <<>>]

\* the match arm Ok(true)
IsOkTrue(res) == res.tag = "Ok" /\ res.val[1] = TRUE

\* what the HTTP client can do on one request
HttpResponses == {"build_err", "send_err", "2xx", "non2xx"}

\* lib.rs:47-58
check_health(resp) ==
  IF resp = "build_err" THEN Err(<<"client build failed">>)
  ELSE IF resp = "send_err" THEN Err(<<"request failed">>)
  ELSE Ok(resp = "2xx")

\* lib.rs:61-70: any response at all counts as running
check_ollama(resp) ==
  IF resp = "build_err" THEN FALSE
  ELSE IF resp = "send_err" THEN FALSE
  ELSE TRUE

TagsResponses == {"build_err", "send_err", "text_err", "contains", "lacks"}

\* lib.rs:73-97
check_model_available(resp) ==
  IF resp = "build_err" THEN FALSE
  ELSE IF resp = "send_err" THEN FALSE
  ELSE IF resp = "text_err" THEN FALSE
  ELSE resp = "contains"

\* lib.rs:100-124
pull_ollama_model(model_name, resp) ==
  IF resp = "build_err" THEN Err(<<"Failed to create client: ", "e">>)
  ELSE IF resp = "send_err" THEN Err(<<"Failed to pull model: ", "e">>)
  ELSE IF resp = "2xx" THEN Ok(<<>>)
  ELSE Err(<<"Failed to pull model ", model_name, ": HTTP ", "status">>)

(* ---------------- state ---------------- *)

VARIABLES
  pc,            \* position of the background startup task
  status,        \* BackendState.status : BackendStatus
  ready,         \* BackendState.ready
  process,       \* BackendState.process : Option<Child>
  statusLock,    \* holders of the status mutex
  readyLock,     \* holders of the ready mutex
  pending,       \* assignments still to run in the current `if let Ok(mut status)` block
  oll,           \* frame of ensure_ollama_running
  mdl,           \* frame of ensure_required_models
  bk,            \* frame of start_backend
  wt,            \* frame of wait_for_backend_ready
  rd,            \* a caller of is_backend_ready
  gs,            \* a caller of get_backend_status
  ch,            \* a caller of check_backend_health
  entered,       \* history: how often each stage value was entered
  lastCommitted, \* history: the status record at the last release of the status mutex
  startRes,      \* history: what start_backend returned to the task
  readyWrites,   \* history: number of writes of true to the ready flag
  fetchFailed    \* history: some pull_ollama_model call of this run returned Err

vars == << pc, status, ready, process, statusLock, readyLock, pending,
           oll, mdl, bk, wt, rd, gs, ch,
           entered, lastCommitted, startRes, readyWrites, fetchFailed >>

frames == << oll, mdl, bk, wt >>
callers == << rd, gs, ch >>
store == << status, ready, process >>

NoOll == [probes |-> 0, first |-> "none", k |-> 0, spawns |-> <<>>,
          attempt |-> 0, waitFailed |-> 0, result |-> "none", warned |-> FALSE]
NoMdl == [i |-> 0, checks |-> <<>>, fetches |-> <<>>, res |-> NoResult]
NoBk  == [disk |-> {}, resolved |-> FALSE, c |-> 0, spawns |-> <<>>, result |-> NoResult]
NoWt  == [attempt |-> 0, calls |-> 0, failed |-> 0, result |-> NoResult]

IdleRd == [pc |-> "idle", result |-> NoResult, sawTrue |-> FALSE]
IdleGs == [pc |-> "idle", result |-> NoResult]
IdleCh == [pc |-> "idle", probe |-> NoResult, result |-> NoResult]

\* lib.rs:340-348
Init ==
  /\ pc = "blk_starting_ollama"
  /\ status = [stage |-> "starting",
               message |-> <<"Initializing backend services...">>,
               last_error |-> None]
  /\ ready = FALSE
  /\ process = None
  /\ statusLock = {}
  /\ readyLock = {}
  /\ pending = <<>>
  /\ oll = NoOll
  /\ mdl = NoMdl
  /\ bk = NoBk
  /\ wt = NoWt
  /\ rd = IdleRd
  /\ gs = IdleGs
  /\ ch = IdleCh
  /\ entered = [s \in StageSet |-> IF s = "starting" THEN 1 ELSE 0]
  /\ lastCommitted = [stage |-> "starting",
                      message |-> <<"Initializing backend services...">>,
                      last_error |-> None]
  /\ startRes = "none"
  /\ readyWrites = 0
  /\ fetchFailed = FALSE

(* ---------------- the status mutex and a locked update ---------------- *)

\* Mutex::lock succeeds once nobody holds the mutex
MutexFree(m) == m = {}

\* one assignment `status.<field> = value` under the lock
WriteField ==
  /\ pending # <<>>
  /\ status' = [status EXCEPT ![Head(pending)[1]] = Head(pending)[2]]
  /\ entered' = IF Head(pending)[1] = "stage" /\ Head(pending)[2] # status.stage
                THEN [entered EXCEPT ![Head(pending)[2]] = @ + 1]
                ELSE entered
  /\ pending' = Tail(pending)

\* `if let Ok(mut status) = status_ref.lock() { assigns }` at label L, then go to next
StatusBlock(L, assigns, next) ==
  /\ pc = L
  /\ \/ /\ "task" \notin statusLock
        /\ MutexFree(statusLock)
        /\ statusLock' = {"task"}
        /\ pending' = assigns
        /\ UNCHANGED << pc, status, entered, lastCommitted >>
     \/ /\ "task" \in statusLock
        /\ WriteField
        /\ UNCHANGED << pc, statusLock, lastCommitted >>
     \/ /\ "task" \in statusLock
        /\ pending = <<>>
        /\ statusLock' = statusLock \ {"task"}
        /\ lastCommitted' = status
        /\ pc' = next
        /\ UNCHANGED << status, entered, pending >>
  /\ UNCHANGED << ready, process, readyLock, frames, callers,
                  startRes, readyWrites, fetchFailed >>

\* a step of the task that touches neither the store nor the locks
TaskLocal ==
  UNCHANGED << status, ready, process, statusLock, readyLock, pending,
               callers, entered, lastCommitted, readyWrites >>

(* ---------------- setup_backend: start of the spawned task ---------------- *)

\* lib.rs:357-361
setup_backend_starting_ollama ==
  StatusBlock("blk_starting_ollama",
              << <<"stage", "starting_ollama">>,
                 <<"message", <<"Starting Ollama...">> >>,
                 <<"last_error", None>> >>,
              "oll_check")

(* ---------------- ensure_ollama_running (lib.rs:171-228) ---------------- *)

\* mutation: the early return is missing
ensure_ollama_running_check_no_return ==
  /\ pc = "oll_check"
  /\ \E resp \in HttpResponses :
       LET r == check_ollama(resp) IN
         /\ oll' = [oll EXCEPT !.probes = @ + 1,
                               !.first = IF r THEN "up" ELSE "down"]
         /\ pc' = "oll_spawn_next"
  /\ UNCHANGED << mdl, bk, wt, startRes, fetchFailed >>
  /\ TaskLocal

\* lib.rs:172-175
ensure_ollama_running_check ==
  /\ pc = "oll_check"
  /\ \E resp \in HttpResponses :
       LET r == check_ollama(resp) IN
         /\ oll' = [oll EXCEPT !.probes = @ + 1,
                               !.first = IF r THEN "up" ELSE "down"]
         /\ pc' = IF r THEN "oll_ret" ELSE "oll_spawn_next"
  /\ UNCHANGED << mdl, bk, wt, startRes, fetchFailed >>
  /\ TaskLocal

\* lib.rs:188 and 202: head of `for path in &ollama_paths`, then the unwrap_or_else
ensure_ollama_running_next_path ==
  /\ pc = "oll_spawn_next"
  /\ IF oll.k < Len(ollama_paths)
     THEN /\ oll' = [oll EXCEPT !.k = @ + 1]
          /\ pc' = "oll_spawn"
     ELSE /\ oll' = oll
          /\ pc' = "oll_fallback"
  /\ UNCHANGED << mdl, bk, wt, startRes, fetchFailed >>
  /\ TaskLocal

\* lib.rs:189-199
ensure_ollama_running_spawn ==
  /\ pc = "oll_spawn"
  /\ \E ok \in BOOLEAN :
       /\ oll' = [oll EXCEPT !.spawns = Append(@, << ollama_paths[oll.k], ok >>),
                             !.result = IF ok THEN "ok" ELSE @]
       /\ pc' = IF ok THEN "oll_wait_next" ELSE "oll_spawn_next"
  /\ UNCHANGED << mdl, bk, wt, startRes, fetchFailed >>
  /\ TaskLocal

\* lib.rs:202-208 and 223-226
ensure_ollama_running_fallback ==
  /\ pc = "oll_fallback"
  /\ \E ok \in BOOLEAN :
       /\ oll' = [oll EXCEPT !.spawns = Append(@, << "ollama", ok >>),
                             !.result = IF ok THEN "ok" ELSE "err"]
       /\ pc' = IF ok THEN "oll_wait_next" ELSE "oll_ret"
  /\ UNCHANGED << mdl, bk, wt, startRes, fetchFailed >>
  /\ TaskLocal

\* mutation: the loop bound is inclusive of an eleventh attempt
ensure_ollama_running_next_attempt_eleven ==
  /\ pc = "oll_wait_next"
  /\ IF oll.attempt <= OllamaWaitAttempts
     THEN /\ oll' = [oll EXCEPT !.attempt = @ + 1]
          /\ pc' = "oll_wait"
     ELSE /\ oll' = [oll EXCEPT !.warned = TRUE]
          /\ pc' = "oll_ret"
  /\ UNCHANGED << mdl, bk, wt, startRes, fetchFailed >>
  /\ TaskLocal

\* lib.rs:213 and 221: head of `for attempt in 1..=10`, the warning after it
ensure_ollama_running_next_attempt ==
  /\ pc = "oll_wait_next"
  /\ IF oll.attempt < OllamaWaitAttempts
     THEN /\ oll' = [oll EXCEPT !.attempt = @ + 1]
          /\ pc' = "oll_wait"
     ELSE /\ oll' = [oll EXCEPT !.warned = TRUE]
          /\ pc' = "oll_ret"
  /\ UNCHANGED << mdl, bk, wt, startRes, fetchFailed >>
  /\ TaskLocal

\* lib.rs:214-219
ensure_ollama_running_wait ==
  /\ pc = "oll_wait"
  /\ \E resp \in HttpResponses :
       /\ oll' = [oll EXCEPT !.probes = @ + 1,
                             !.waitFailed = IF check_ollama(resp) THEN @ ELSE @ + 1]
       /\ pc' = IF check_ollama(resp) THEN "oll_ret" ELSE "oll_wait_next"
  /\ UNCHANGED << mdl, bk, wt, startRes, fetchFailed >>
  /\ TaskLocal

\* return to the task, lib.rs:363-366
ensure_ollama_running_return ==
  /\ pc = "oll_ret"
  /\ oll' = NoOll
  /\ pc' = "mdl_next"
  /\ UNCHANGED << mdl, bk, wt, startRes, fetchFailed >>
  /\ TaskLocal

ensure_ollama_running ==
  \/ ensure_ollama_running_check
  \/ ensure_ollama_running_next_path
  \/ ensure_ollama_running_spawn
  \/ ensure_ollama_running_fallback
  \/ ensure_ollama_running_next_attempt
  \/ ensure_ollama_running_wait
  \/ ensure_ollama_running_return

(* ---------------- ensure_required_models (lib.rs:134-168) ---------------- *)

model_name(i) == REQUIRED_MODELS[i][1]
description(i) == REQUIRED_MODELS[i][2]

\* lib.rs:137: head of `for (model_name, description) in REQUIRED_MODELS`
ensure_required_models_next ==
  /\ pc = "mdl_next"
  /\ IF mdl.i < NumModels
     THEN /\ mdl' = [mdl EXCEPT !.i = @ + 1]
          /\ pc' = "mdl_blk_checking"
     ELSE /\ mdl' = mdl
          /\ pc' = "mdl_ret"
  /\ UNCHANGED << oll, bk, wt, startRes, fetchFailed >>
  /\ TaskLocal

\* lib.rs:138-141
ensure_required_models_checking ==
  StatusBlock("mdl_blk_checking",
              << <<"stage", "checking_models">>,
                 <<"message", <<"Checking ", description(mdl.i), "...">> >> >>,
              "mdl_check")

\* lib.rs:143, 162-164
ensure_required_models_check ==
  /\ pc = "mdl_check"
  /\ \E resp \in TagsResponses :
       LET r == check_model_available(resp) IN
         /\ mdl' = [mdl EXCEPT !.checks = Append(@, r)]
         /\ pc' = IF r THEN "mdl_next" ELSE "mdl_blk_downloading"
  /\ UNCHANGED << oll, bk, wt, startRes, fetchFailed >>
  /\ TaskLocal

\* lib.rs:146-149
ensure_required_models_downloading ==
  StatusBlock("mdl_blk_downloading",
              << <<"stage", "downloading_model">>,
                 <<"message", <<"Downloading ", description(mdl.i),
                                " (this may take several minutes)...">> >> >>,
              "mdl_pull")

\* mutation: the first failed pull ends the loop
ensure_required_models_pull_abort ==
  /\ pc = "mdl_pull"
  /\ \E resp \in HttpResponses :
       LET res == pull_ollama_model(model_name(mdl.i), resp) IN
         /\ mdl' = [mdl EXCEPT !.fetches = Append(@, mdl.i), !.res = res]
         /\ pc' = IF res.tag = "Ok" THEN "mdl_next" ELSE "mdl_ret"
         /\ fetchFailed' = (fetchFailed \/ res.tag = "Err")
  /\ UNCHANGED << oll, bk, wt, startRes >>
  /\ TaskLocal

\* lib.rs:151-156
ensure_required_models_pull ==
  /\ pc = "mdl_pull"
  /\ \E resp \in HttpResponses :
       LET res == pull_ollama_model(model_name(mdl.i), resp) IN
         /\ mdl' = [mdl EXCEPT !.fetches = Append(@, mdl.i), !.res = res]
         /\ pc' = IF res.tag = "Ok" THEN "mdl_next" ELSE "mdl_blk_failed"
         /\ fetchFailed' = (fetchFailed \/ res.tag = "Err")
  /\ UNCHANGED << oll, bk, wt, startRes >>
  /\ TaskLocal

\* mutation: a failed pull is treated as fatal
ensure_required_models_failed_abort ==
  StatusBlock("mdl_blk_failed",
              << <<"stage", "error">>,
                 <<"last_error",
                   Some(<<"Failed to download ", model_name(mdl.i), ": ">>
                        \o mdl.res.val[1])>> >>,
              "done")

\* mutation: the Err arm only logs, last_error is left as it was
ensure_required_models_failed_not_recorded ==
  StatusBlock("mdl_blk_failed", <<>>, "mdl_next")

\* lib.rs:157-159
ensure_required_models_failed ==
  StatusBlock("mdl_blk_failed",
              << <<"last_error",
                   Some(<<"Failed to download ", model_name(mdl.i), ": ">>
                        \o mdl.res.val[1])>> >>,
              "mdl_next")

\* lib.rs:167-168, back in the task at lib.rs:368
ensure_required_models_return ==
  /\ pc = "mdl_ret"
  /\ mdl' = NoMdl
  /\ pc' = "blk_starting_backend"
  /\ UNCHANGED << oll, bk, wt, startRes, fetchFailed >>
  /\ TaskLocal

ensure_required_models ==
  \/ ensure_required_models_next
  \/ ensure_required_models_checking
  \/ ensure_required_models_check
  \/ ensure_required_models_downloading
  \/ ensure_required_models_pull
  \/ ensure_required_models_failed
  \/ ensure_required_models_return

(* ---------------- start_backend (lib.rs:244-312) ---------------- *)

\* mutation: the block names the wrong stage
setup_backend_starting_backend_wrong_stage ==
  StatusBlock("blk_starting_backend",
              << <<"stage", "starting_ollama">>,
                 <<"message", <<"Starting backend...">> >> >>,
              "bk_kill")

\* lib.rs:368-371
setup_backend_starting_backend ==
  StatusBlock("blk_starting_backend",
              << <<"stage", "starting_backend">>,
                 <<"message", <<"Starting backend...">> >> >>,
              "bk_kill")

\* the candidate paths that exist on disk when start_backend runs
DiskStates == SUBSET { candidate_paths[c] : c \in 1..Len(candidate_paths) }

\* lib.rs:245-248, kill_existing_backend (lib.rs:231-241)
start_backend_kill_existing ==
  /\ pc = "bk_kill"
  /\ \E d \in DiskStates : bk' = [NoBk EXCEPT !.disk = d]
  /\ pc' = "bk_resdir"
  /\ UNCHANGED << oll, mdl, wt, startRes, fetchFailed >>
  /\ TaskLocal

\* lib.rs:250-253
start_backend_resource_dir ==
  /\ pc = "bk_resdir"
  /\ \E resolves \in BOOLEAN :
       IF resolves
       THEN /\ bk' = [bk EXCEPT !.resolved = TRUE]
            /\ pc' = "bk_next"
       ELSE /\ bk' = [bk EXCEPT !.result = Err(<<"Failed to get resource dir: ", "e">>)]
            /\ pc' = "bk_ret"
  /\ UNCHANGED << oll, mdl, wt, startRes, fetchFailed >>
  /\ TaskLocal

\* mutation: a missing executable is reported as an error
start_backend_next_candidate_not_found ==
  /\ pc = "bk_next"
  /\ IF bk.c < Len(candidate_paths)
     THEN /\ bk' = [bk EXCEPT !.c = @ + 1]
          /\ pc' = "bk_candidate"
     ELSE /\ bk' = [bk EXCEPT !.result = Err(<<"Bundled backend not found">>)]
          /\ pc' = "bk_ret"
  /\ UNCHANGED << oll, mdl, wt, startRes, fetchFailed >>
  /\ TaskLocal

\* lib.rs:278 and 308-311: head of `for candidate in candidate_paths`, dev mode after it
start_backend_next_candidate ==
  /\ pc = "bk_next"
  /\ IF bk.c < Len(candidate_paths)
     THEN /\ bk' = [bk EXCEPT !.c = @ + 1]
          /\ pc' = "bk_candidate"
     ELSE /\ bk' = [bk EXCEPT !.result = Ok(None)]
          /\ pc' = "bk_ret"
  /\ UNCHANGED << oll, mdl, wt, startRes, fetchFailed >>
  /\ TaskLocal

Child(path, dir) == [path |-> path, current_dir |-> dir]

\* mutation: a failed spawn is skipped and the next candidate is tried
start_backend_candidate_fallback ==
  /\ pc = "bk_candidate"
  /\ LET candidate == candidate_paths[bk.c]
         backend_dir == Parent(candidate)
     IN IF candidate \notin bk.disk
        THEN /\ bk' = bk
             /\ pc' = "bk_next"
        ELSE IF backend_dir = None
        THEN /\ bk' = [bk EXCEPT !.result = Err(<<"Backend path has no parent directory">>)]
             /\ pc' = "bk_ret"
        ELSE \E ok \in BOOLEAN :
             /\ bk' = [bk EXCEPT
                         !.spawns = Append(@, << bk.c, backend_dir[1], ok >>),
                         !.result = IF ok
                                    THEN Ok(Some(Child(candidate, backend_dir[1])))
                                    ELSE @]
             /\ pc' = IF ok THEN "bk_ret" ELSE "bk_next"
  /\ UNCHANGED << oll, mdl, wt, startRes, fetchFailed >>
  /\ TaskLocal

\* lib.rs:279-305
start_backend_candidate ==
  /\ pc = "bk_candidate"
  /\ LET candidate == candidate_paths[bk.c]
         backend_dir == Parent(candidate)
     IN IF candidate \notin bk.disk
        THEN /\ bk' = bk
             /\ pc' = "bk_next"
        ELSE IF backend_dir = None
        THEN /\ bk' = [bk EXCEPT !.result = Err(<<"Backend path has no parent directory">>)]
             /\ pc' = "bk_ret"
        ELSE \E ok \in BOOLEAN :
             /\ bk' = [bk EXCEPT
                         !.spawns = Append(@, << bk.c, backend_dir[1], ok >>),
                         !.result = IF ok
                                    THEN Ok(Some(Child(candidate, backend_dir[1])))
                                    ELSE Err(<<"Failed to start backend: ", "e">>)]
             /\ pc' = "bk_ret"
  /\ UNCHANGED << oll, mdl, wt, startRes, fetchFailed >>
  /\ TaskLocal

\* mutation: the Err arm is logged and the task goes on to the health wait
setup_backend_match_start_ignore_error ==
  /\ pc = "bk_ret"
  /\ IF bk.result.tag = "Ok"
     THEN /\ process' = IF bk.result.val[1] # None THEN bk.result.val[1] ELSE process
          /\ startRes' = IF bk.result.val[1] # None THEN "handle" ELSE "absent"
          /\ bk' = NoBk
          /\ pc' = "blk_waiting"
     ELSE /\ process' = process
          /\ startRes' = "error"
          /\ bk' = [NoBk EXCEPT !.result = bk.result]
          /\ pc' = "blk_waiting"
  /\ UNCHANGED << oll, mdl, wt >>
  /\ UNCHANGED << status, ready, statusLock, readyLock, pending,
                  callers, entered, lastCommitted, readyWrites, fetchFailed >>

\* lib.rs:373-382 and 415: the match on the value start_backend returned
setup_backend_match_start ==
  /\ pc = "bk_ret"
  /\ IF bk.result.tag = "Ok"
     THEN /\ process' = IF bk.result.val[1] # None THEN bk.result.val[1] ELSE process
          /\ startRes' = IF bk.result.val[1] # None THEN "handle" ELSE "absent"
          /\ bk' = NoBk
          /\ pc' = "blk_waiting"
     ELSE /\ process' = process
          /\ startRes' = "error"
          /\ bk' = [NoBk EXCEPT !.result = bk.result]
          /\ pc' = "blk_error_start"
  /\ UNCHANGED << oll, mdl, wt >>
  /\ UNCHANGED << status, ready, statusLock, readyLock, pending,
                  callers, entered, lastCommitted, readyWrites, fetchFailed >>

\* mutation: after recording the launch error the task tries the launch again
setup_backend_start_error_retry ==
  StatusBlock("blk_error_start",
              << <<"stage", "error">>,
                 <<"message", <<"Backend failed to start">> >>,
                 <<"last_error", Some(bk.result.val[1])>> >>,
              "blk_starting_backend")

\* lib.rs:415-422
setup_backend_start_error ==
  StatusBlock("blk_error_start",
              << <<"stage", "error">>,
                 <<"message", <<"Backend failed to start">> >>,
                 <<"last_error", Some(bk.result.val[1])>> >>,
              "done")

start_backend ==
  \/ start_backend_kill_existing
  \/ start_backend_resource_dir
  \/ start_backend_next_candidate
  \/ start_backend_candidate

(* ---------------- wait_for_backend_ready (lib.rs:315-336) ---------------- *)

\* mutation: entering the wait also writes a last_error
setup_backend_waiting_sets_error ==
  StatusBlock("blk_waiting",
              << <<"stage", "waiting_for_backend">>,
                 <<"message", <<"Waiting for backend to be ready...">> >>,
                 <<"last_error", Some(<<"Waiting for backend to be ready...">>)>> >>,
              "wt_probe")

\* lib.rs:384-387
setup_backend_waiting ==
  StatusBlock("blk_waiting",
              << <<"stage", "waiting_for_backend">>,
                 <<"message", <<"Waiting for backend to be ready...">> >> >>,
              "wt_probe")

\* mutation: the loop runs over 1..max_attempts, upper end excluded
wait_for_backend_ready_probe_exclusive ==
  /\ pc = "wt_probe"
  /\ wt.attempt < max_attempts - 1
  /\ \E resp \in HttpResponses :
       LET res == check_health(resp)
           attempt == wt.attempt + 1
       IN IF IsOkTrue(res)
          THEN /\ wt' = [wt EXCEPT !.attempt = attempt, !.calls = @ + 1,
                                   !.result = Ok(<<>>)]
               /\ pc' = "wt_ret"
          ELSE IF attempt < max_attempts - 1
          THEN /\ wt' = [wt EXCEPT !.attempt = attempt, !.calls = @ + 1,
                                   !.failed = @ + 1]
               /\ pc' = "wt_probe"
          ELSE /\ wt' = [wt EXCEPT !.attempt = attempt, !.calls = @ + 1,
                                   !.failed = @ + 1,
                                   !.result = Err(<<"Backend failed to start within timeout">>)]
               /\ pc' = "wt_ret"
  /\ UNCHANGED << oll, mdl, bk, startRes, fetchFailed >>
  /\ TaskLocal

\* mutation: any Ok from check_health ends the wait, also Ok(false)
wait_for_backend_ready_probe_any_ok ==
  /\ pc = "wt_probe"
  /\ wt.attempt < max_attempts
  /\ \E resp \in HttpResponses :
       LET res == check_health(resp)
           attempt == wt.attempt + 1
           bad == IF IsOkTrue(res) THEN 0 ELSE 1
       IN IF res.tag = "Ok"
          THEN /\ wt' = [wt EXCEPT !.attempt = attempt, !.calls = @ + 1,
                                   !.failed = @ + bad,
                                   !.result = Ok(<<>>)]
               /\ pc' = "wt_ret"
          ELSE IF attempt < max_attempts
          THEN /\ wt' = [wt EXCEPT !.attempt = attempt, !.calls = @ + 1,
                                   !.failed = @ + 1]
               /\ pc' = "wt_probe"
          ELSE /\ wt' = [wt EXCEPT !.attempt = attempt, !.calls = @ + 1,
                                   !.failed = @ + 1,
                                   !.result = Err(<<"Backend failed to start within timeout">>)]
               /\ pc' = "wt_ret"
  /\ UNCHANGED << oll, mdl, bk, startRes, fetchFailed >>
  /\ TaskLocal

\* lib.rs:318-335: one iteration of `for attempt in 1..=max_attempts` (sleep,
\* check_health, match), and the Err after the loop when it was the last one
wait_for_backend_ready_probe ==
  /\ pc = "wt_probe"
  /\ wt.attempt < max_attempts
  /\ \E resp \in HttpResponses :
       LET res == check_health(resp)
           attempt == wt.attempt + 1
       IN IF IsOkTrue(res)
          THEN /\ wt' = [wt EXCEPT !.attempt = attempt, !.calls = @ + 1,
                                   !.result = Ok(<<>>)]
               /\ pc' = "wt_ret"
          ELSE IF attempt < max_attempts
          THEN /\ wt' = [wt EXCEPT !.attempt = attempt, !.calls = @ + 1,
                                   !.failed = @ + 1]
               /\ pc' = "wt_probe"
          ELSE /\ wt' = [wt EXCEPT !.attempt = attempt, !.calls = @ + 1,
                                   !.failed = @ + 1,
                                   !.result = Err(<<"Backend failed to start within timeout">>)]
               /\ pc' = "wt_ret"
  /\ UNCHANGED << oll, mdl, bk, startRes, fetchFailed >>
  /\ TaskLocal

\* mutation: on a timeout the Err arm drops the child handle
setup_backend_match_wait_clears_process ==
  /\ pc = "wt_ret"
  /\ IF wt.result.tag = "Ok"
     THEN /\ wt' = NoWt
          /\ process' = process
          /\ pc' = "set_ready"
     ELSE /\ wt' = [NoWt EXCEPT !.result = wt.result]
          /\ process' = None
          /\ pc' = "blk_error_timeout"
  /\ UNCHANGED << oll, mdl, bk, startRes, fetchFailed >>
  /\ UNCHANGED << status, ready, statusLock, readyLock, pending,
                  callers, entered, lastCommitted, readyWrites >>

\* lib.rs:390-391 and 402: the match on the value wait_for_backend_ready returned
setup_backend_match_wait ==
  /\ pc = "wt_ret"
  /\ IF wt.result.tag = "Ok"
     THEN /\ wt' = NoWt
          /\ pc' = "set_ready"
     ELSE /\ wt' = [NoWt EXCEPT !.result = wt.result]
          /\ pc' = "blk_error_timeout"
  /\ UNCHANGED << oll, mdl, bk, startRes, fetchFailed >>
  /\ TaskLocal

\* mutation: the Ok arm goes on to the status update without writing the flag
setup_backend_set_ready_skipped ==
  /\ pc = "set_ready"
  /\ MutexFree(readyLock)
  /\ ready' = ready
  /\ readyWrites' = readyWrites
  /\ pc' = "blk_ready"
  /\ UNCHANGED << status, process, statusLock, readyLock, pending, frames, callers,
                  entered, lastCommitted, startRes, fetchFailed >>

\* lib.rs:392-394
setup_backend_set_ready ==
  /\ pc = "set_ready"
  /\ MutexFree(readyLock)
  /\ ready' = TRUE
  /\ readyWrites' = readyWrites + 1
  /\ pc' = "blk_ready"
  /\ UNCHANGED << status, process, statusLock, readyLock, pending, frames, callers,
                  entered, lastCommitted, startRes, fetchFailed >>

\* mutation: the Ok arm writes the flag a second time, with false
setup_backend_ready_clears_flag ==
  /\ pc = "blk_ready"
  /\ MutexFree(readyLock)
  /\ ready' = FALSE
  /\ pc' = "done"
  /\ UNCHANGED << status, process, statusLock, readyLock, pending, frames, callers,
                  entered, lastCommitted, startRes, readyWrites, fetchFailed >>

\* lib.rs:395-399
setup_backend_ready ==
  StatusBlock("blk_ready",
              << <<"stage", "ready">>,
                 <<"message", <<"Backend ready">> >>,
                 <<"last_error", None>> >>,
              "done")

\* mutation: after the timeout is recorded the task waits for the backend again
setup_backend_timeout_retry ==
  StatusBlock("blk_error_timeout",
              << <<"stage", "error">>,
                 <<"message", <<"Backend failed to start">> >>,
                 <<"last_error", Some(wt.result.val[1])>> >>,
              "blk_waiting")

\* lib.rs:402-411
setup_backend_timeout ==
  StatusBlock("blk_error_timeout",
              << <<"stage", "error">>,
                 <<"message", <<"Backend failed to start">> >>,
                 <<"last_error", Some(wt.result.val[1])>> >>,
              "done")

wait_for_backend_ready ==
  wait_for_backend_ready_probe

\* lib.rs:356-424: the task spawned by setup_backend
setup_backend ==
  \/ setup_backend_starting_ollama
  \/ ensure_ollama_running
  \/ ensure_required_models
  \/ setup_backend_starting_backend
  \/ start_backend
  \/ setup_backend_match_start
  \/ setup_backend_start_error
  \/ setup_backend_waiting
  \/ wait_for_backend_ready
  \/ setup_backend_match_wait
  \/ setup_backend_set_ready
  \/ setup_backend_ready
  \/ setup_backend_timeout

(* ---------------- the tauri commands ---------------- *)

TaskUnchanged ==
  UNCHANGED << pc, status, ready, process, pending, frames,
               entered, lastCommitted, startRes, readyWrites, fetchFailed >>

\* lib.rs:24: state.ready.lock()
is_backend_ready_lock ==
  /\ rd.pc = "idle"
  /\ MutexFree(readyLock)
  /\ readyLock' = {"is_backend_ready"}
  /\ rd' = [rd EXCEPT !.pc = "locked"]
  /\ UNCHANGED << statusLock, gs, ch >>
  /\ TaskUnchanged

\* lib.rs:25: Ok(*ready), the guard is dropped on return
is_backend_ready_return ==
  /\ rd.pc = "locked"
  /\ readyLock' = readyLock \ {"is_backend_ready"}
  /\ rd' = [rd EXCEPT !.pc = "returned", !.result = Ok(ready)]
  /\ UNCHANGED << statusLock, gs, ch >>
  /\ TaskUnchanged

\* the caller takes the answer; it may call again
is_backend_ready_done ==
  /\ rd.pc = "returned"
  /\ rd' = [pc |-> "idle", result |-> NoResult,
            sawTrue |-> (rd.sawTrue \/ IsOkTrue(rd.result))]
  /\ UNCHANGED << statusLock, readyLock, gs, ch >>
  /\ TaskUnchanged

is_backend_ready ==
  \/ is_backend_ready_lock
  \/ is_backend_ready_return
  \/ is_backend_ready_done

\* mutation: the record is read without waiting for the mutex
get_backend_status_no_lock ==
  /\ gs.pc = "idle"
  /\ statusLock' = statusLock \cup {"get_backend_status"}
  /\ gs' = [gs EXCEPT !.pc = "locked"]
  /\ UNCHANGED << readyLock, rd, ch >>
  /\ TaskUnchanged

\* lib.rs:30: state.status.lock()
get_backend_status_lock ==
  /\ gs.pc = "idle"
  /\ MutexFree(statusLock)
  /\ statusLock' = statusLock \cup {"get_backend_status"}
  /\ gs' = [gs EXCEPT !.pc = "locked"]
  /\ UNCHANGED << readyLock, rd, ch >>
  /\ TaskUnchanged

\* lib.rs:31: status.clone()
get_backend_status_clone ==
  /\ gs.pc = "locked"
  /\ gs' = [pc |-> "cloned", result |-> Ok(status)]
  /\ UNCHANGED << statusLock, readyLock, rd, ch >>
  /\ TaskUnchanged

\* lib.rs:31-32: Ok(..) returned, the guard is dropped
get_backend_status_return ==
  /\ gs.pc = "cloned"
  /\ statusLock' = statusLock \ {"get_backend_status"}
  /\ gs' = IdleGs
  /\ UNCHANGED << readyLock, rd, ch >>
  /\ TaskUnchanged

get_backend_status ==
  \/ get_backend_status_lock
  \/ get_backend_status_clone
  \/ get_backend_status_return

\* lib.rs:36-44
\* mutation: the probe's error is returned to the caller
check_backend_health_call_propagates ==
  /\ ch.pc = "idle"
  /\ \E resp \in HttpResponses :
       LET res == check_health(resp) IN
         ch' = [pc |-> "returned",
                probe |-> res,
                result |-> res]
  /\ UNCHANGED << statusLock, readyLock, rd, gs >>
  /\ TaskUnchanged

check_backend_health_call ==
  /\ ch.pc = "idle"
  /\ \E resp \in HttpResponses :
       LET res == check_health(resp) IN
         ch' = [pc |-> "returned",
                probe |-> res,
                result |-> IF res.tag = "Ok" THEN res ELSE Ok(FALSE)]
  /\ UNCHANGED << statusLock, readyLock, rd, gs >>
  /\ TaskUnchanged

check_backend_health_done ==
  /\ ch.pc = "returned"
  /\ ch' = IdleCh
  /\ UNCHANGED << statusLock, readyLock, rd, gs >>
  /\ TaskUnchanged

check_backend_health ==
  \/ check_backend_health_call
  \/ check_backend_health_done

Commands ==
  \/ is_backend_ready
  \/ get_backend_status
  \/ check_backend_health

Next ==
  \/ setup_backend
  \/ Commands

Spec == Init /\ [][Next]_vars

\* Scheduling: the async runtime keeps running the spawned task and every
\* external call returns, a task waiting for a mutex is eventually granted it,
\* and a command that holds a mutex runs on to its return.
FairSpec ==
  /\ Spec
  /\ SF_vars(setup_backend)
  /\ WF_vars(is_backend_ready_return)
  /\ WF_vars(get_backend_status_clone \/ get_backend_status_return)

TypeOK ==
  /\ status.stage \in StageSet
  /\ ready \in BOOLEAN
  /\ Cardinality(statusLock) <= 1
  /\ Cardinality(readyLock) <= 1

(* ======================= properties ======================= *)

\* position of a stage in the order
\* starting < starting_ollama < checking_models < downloading_model <
\* starting_backend < waiting_for_backend < (ready | error)
Rank(s) ==
  IF s = "error" THEN 7
  ELSE CHOOSE k \in 1..Len(Stages) : Stages[k] = s

\* the same order with checking_models and downloading_model as one phase
Phase(s) ==
  IF s = "downloading_model" THEN Rank("checking_models") ELSE Rank(s)

\* C1 as stated: in every step of every run the stage never moves backward
\* in the order starting < starting_ollama < checking_models <
\* downloading_model < starting_backend < waiting_for_backend < (ready | error).
C1_StageNeverBackward ==
  [][Rank(status'.stage) >= Rank(status.stage)]_vars

\* C1 amended: the stage never moves backward in the order starting <
\* starting_ollama < (checking_models | downloading_model) < starting_backend
\* < waiting_for_backend < (ready | error); inside the model phase the only
\* moves are checking_models -> downloading_model and back, the move back
\* happening only when the loop goes on to the next required model.
C1_StageNeverBackwardByPhase ==
  [][ /\ Phase(status'.stage) >= Phase(status.stage)
      /\ (Rank(status'.stage) < Rank(status.stage)
            => /\ status.stage = "downloading_model"
               /\ status'.stage = "checking_models"
               /\ pc = "mdl_blk_checking"
               /\ mdl.i > 1) ]_vars

\* a run that downloaded every model and went through all phases to ready
C1_Witness ==
  /\ pc = "done"
  /\ status.stage = "ready"
  /\ entered["downloading_model"] = NumModels
  /\ entered["checking_models"] = NumModels

\* C2: the ready flag starts false, is written to true at most once, never
\* goes from true to false, and an is_backend_ready call made after one that
\* returned true returns true.
C2_ReadyNeverReset ==
  /\ [](readyWrites <= 1)
  /\ [](ready <=> readyWrites = 1)
  /\ [][ready => ready']_vars
  /\ [](rd.sawTrue /\ rd.pc = "returned" => IsOkTrue(rd.result))

\* a second is_backend_ready call returning after one that returned true
C2_Witness ==
  /\ rd.sawTrue
  /\ rd.pc = "returned"
  /\ IsOkTrue(rd.result)
  /\ ready

\* C3: the task eventually completes an update to stage ready or error, and
\* once such an update is complete the status record, the ready flag and the
\* process slot never change again.
C3_ReachesTerminalAndStops ==
  /\ <>(lastCommitted.stage \in Terminal /\ pc = "done")
  /\ [][lastCommitted.stage \in Terminal
          => /\ UNCHANGED store
             /\ pc' = "done"]_vars

\* the task has finished in a terminal stage
C3_Witness ==
  /\ pc = "done"
  /\ status.stage \in Terminal
  /\ lastCommitted = status
  /\ statusLock = {}

\* the models whose presence check returned false, in declared order
RECURSIVE Absent(_, _)
Absent(checks, n) ==
  IF n = 0 THEN <<>>
  ELSE IF checks[n] THEN Absent(checks, n - 1)
  ELSE Append(Absent(checks, n - 1), n)

\* s is an initial segment of t
IsPrefix(s, t) ==
  /\ Len(s) <= Len(t)
  /\ \A k \in 1..Len(s) : s[k] = t[k]

\* C4: when every health probe of wait_for_backend_ready failed, it returns
\* after exactly 30 probes; the task then ends in stage error with a
\* non-empty last_error and the ready flag false, and probes no more.
C4_ThirtyProbesThenError ==
  /\ [](pc = "wt_ret" /\ wt.failed = wt.calls
          => wt.calls = 30 /\ wt.attempt = 30 /\ wt.result.tag = "Err")
  /\ [](wt.result.tag = "Err" /\ pc = "done"
          => /\ status.stage = "error"
             /\ status.last_error # None
             /\ status.last_error[1] # <<>>
             /\ ~ready)
  /\ [](wt.result.tag = "Err" /\ pc # "wt_ret"
          => pc \in {"blk_error_timeout", "done"} /\ wt.calls = 0 /\ ~ready)
  /\ [][wt.result.tag = "Err" => pc' # "wt_probe" /\ wt'.calls <= wt.calls]_vars

\* the task has ended after 30 failed probes
C4_Witness ==
  /\ pc = "done"
  /\ wt.result.tag = "Err"
  /\ status.stage = "error"
  /\ status.last_error = Some(<<"Backend failed to start within timeout">>)

\* C5: ensure_required_models checks every required model once, in declared
\* order, and calls pull_ollama_model exactly once for each model found
\* absent and for no other, whatever the pulls return: never more than N
\* pulls; when all are present there is no pull, downloading_model is never
\* entered, and the stage goes from checking_models to starting_backend.
C5_OneFetchPerAbsentModel ==
  /\ [](Len(mdl.fetches) <= NumModels)
  /\ [](IsPrefix(mdl.fetches, Absent(mdl.checks, Len(mdl.checks))))
  /\ [](pc \in {"mdl_next", "mdl_ret"}
          => mdl.fetches = Absent(mdl.checks, Len(mdl.checks)))
  /\ [](pc = "mdl_ret"
          => /\ Len(mdl.checks) = NumModels
             /\ entered["downloading_model"] = Len(mdl.fetches)
             /\ (Len(mdl.fetches) = 0 => status.stage = "checking_models"))
  /\ [][entered["downloading_model"] = 0 /\ status'.stage = "starting_backend"
          /\ status.stage # "starting_backend"
          => status.stage = "checking_models"]_vars

\* the first and the third model were absent and pulled, a pull failed
C5_Witness ==
  /\ pc = "mdl_ret"
  /\ mdl.checks = << FALSE, TRUE, FALSE >>
  /\ mdl.fetches = << 1, 3 >>
  /\ fetchFailed

\* C6 as stated: whenever no candidate path exists on disk, start_backend
\* returns Ok(None) and never an error.
C6_NoCandidateNeverError ==
  pc = "bk_ret" /\ bk.disk = {} => bk.result = Ok(None)

\* C6 amended: whenever the resource directory resolves and no candidate
\* path exists on disk, start_backend makes no spawn and returns Ok(None);
\* after Ok(None) the task leaves the process slot empty and goes on to stage
\* waiting_for_backend and health polling, and can end in stage error only
\* through exhausted health polling.
C6_NoCandidateResolvedNeverError ==
  /\ [](pc = "bk_ret" /\ bk.resolved /\ bk.disk = {}
          => bk.result = Ok(None) /\ bk.spawns = <<>>)
  /\ [][pc = "bk_ret" /\ bk.result = Ok(None) /\ pc' # pc
          => pc' = "blk_waiting" /\ process' = None /\ startRes' = "absent"]_vars
  /\ [](startRes = "absent"
          => /\ process = None
             /\ pc \in {"blk_waiting", "wt_probe", "wt_ret", "set_ready",
                         "blk_ready", "blk_error_timeout", "done"}
             /\ (status.stage = "error" => wt.result.tag = "Err")
             /\ (pc \notin {"blk_waiting"} => entered["waiting_for_backend"] = 1))

\* dev mode: nothing on disk, the task is polling the externally run backend
C6_Witness ==
  /\ startRes = "absent"
  /\ pc = "wt_probe"
  /\ wt.calls = 2
  /\ status.stage = "waiting_for_backend"

\* C7: when the first check_ollama of ensure_ollama_running succeeds, the
\* function returns at once: no spawn from a known path or by bare name and
\* no further probe.
C7_RunningMeansNoSpawn ==
  /\ [](oll.first = "up"
          => pc = "oll_ret" /\ oll.spawns = <<>> /\ oll.probes = 1 /\ oll.k = 0)
  /\ [][oll.first = "up" /\ pc' # pc => pc' = "mdl_next" /\ oll' = NoOll]_vars
  /\ [][Len(oll'.spawns) > Len(oll.spawns) \/ oll'.probes > oll.probes
          => pc \in {"oll_check", "oll_spawn", "oll_fallback", "oll_wait"}]_vars

\* ensure_ollama_running is about to return after a first probe that succeeded
C7_Witness ==
  /\ oll.first = "up"
  /\ pc = "oll_ret"
  /\ oll.probes = 1

\* C8: when start_backend returns an error the task writes stage error with
\* the cause in last_error and stops: no health probe, stage
\* waiting_for_backend never entered, process slot empty and ready false for
\* the rest of the run.
C8_StartErrorIsFatal ==
  /\ [](startRes = "error"
          => /\ pc \in {"blk_error_start", "done"}
             /\ bk.result.tag = "Err"
             /\ process = None
             /\ ~ready
             /\ wt = NoWt
             /\ entered["waiting_for_backend"] = 0
             /\ entered["ready"] = 0)
  /\ [](startRes = "error" /\ pc = "done"
          => /\ status.stage = "error"
             /\ status.last_error = Some(bk.result.val[1])
             /\ status.last_error[1] # <<>>)
  /\ [][pc = "bk_ret" /\ bk.result.tag = "Err" /\ pc' # pc
          => startRes' = "error"]_vars

\* the task has ended after start_backend failed to spawn an existing candidate
C8_Witness ==
  /\ startRes = "error"
  /\ pc = "done"
  /\ status.stage = "error"
  /\ status.last_error = Some(<<"Failed to start backend: ", "e">>)

\* C9: a failed pull does not end the run: its error is written to
\* last_error for that model and the loop goes on, every required model is
\* checked, start_backend and health polling still run, and the task ends in
\* stage ready with the flag true unless start_backend returned an error or
\* the 30 probes were exhausted.
C9_FetchFailureNotFatal ==
  /\ [][pc = "mdl_blk_failed" /\ pc' # pc
          => /\ pc' = "mdl_next"
             /\ status'.last_error
                  = Some(<<"Failed to download ", model_name(mdl.i), ": ">>
                         \o mdl.res.val[1])
             /\ status'.stage = "downloading_model"]_vars
  /\ [](pc = "mdl_blk_failed" => fetchFailed /\ mdl.res.tag = "Err")
  /\ [](fetchFailed /\ pc = "mdl_ret" => Len(mdl.checks) = NumModels)
  /\ [](fetchFailed /\ status.stage = "error"
          => startRes = "error" \/ wt.result.tag = "Err")
  /\ [](fetchFailed /\ pc = "done" /\ startRes # "error" /\ wt.result.tag # "Err"
          => status.stage = "ready" /\ ready /\ status.last_error = None)

\* a run in which a pull failed has ended ready
C9_Witness ==
  /\ fetchFailed
  /\ pc = "done"
  /\ status.stage = "ready"
  /\ ready

\* C10: whatever the interleaving, the record get_backend_status clones is
\* the whole status record as the last completed update of the task left it
\* (the initial record before the first update), never a mix of two updates.
C10_ReaderSeesCommittedStatus ==
  gs.pc = "cloned" => gs.result = Ok(lastCommitted)

\* a reader cloned the record while the task was downloading a model
C10_Witness ==
  /\ gs.pc = "cloned"
  /\ gs.result.val[1].stage = "downloading_model"
  /\ pc = "mdl_pull"

\* C11 as stated: the ready flag and the status record change together, so
\* in every reachable state the ready flag is true if and only if the stage
\* is ready.
C11_ReadyIffStageReady ==
  ready <=> status.stage = "ready"

\* C11 amended: the flag and the record are behind two mutexes and the flag
\* is written first: stage ready implies the flag is true, and the flag is
\* true only in stage waiting_for_backend or ready; the two disagree only
\* between the write of the flag and the write of the stage in the Ok arm.
C11_ReadyBeforeStageReady ==
  /\ [](status.stage = "ready" => ready)
  /\ [](lastCommitted.stage = "ready" => ready)
  /\ [](ready => status.stage \in {"waiting_for_backend", "ready"})
  /\ [](ready /\ status.stage # "ready"
          => pc = "blk_ready" /\ status.stage = "waiting_for_backend")
  /\ [](pc = "done" => (ready <=> status.stage = "ready"))

\* one caller was told ready while another cloned stage waiting_for_backend
C11_Witness ==
  /\ rd.pc = "returned"
  /\ IsOkTrue(rd.result)
  /\ gs.pc = "cloned"
  /\ gs.result.val[1].stage = "waiting_for_backend"

\* the labels of start_backend
BkLabels == {"bk_kill", "bk_resdir", "bk_next", "bk_candidate", "bk_ret"}

\* C12: at most one backend child is spawned per run and the process slot is
\* assigned at most once: empty at first, filled only with the handle
\* start_backend returned, never reassigned or cleared, and empty for the
\* whole run when start_backend returned the absent handle or an error.
C12_ProcessAssignedOnce ==
  /\ [](Len(bk.spawns) <= 1)
  /\ [](entered["starting_backend"] <= 1)
  /\ [][process' # process
          => /\ process = None
             /\ pc = "bk_ret"
             /\ bk.result.tag = "Ok"
             /\ bk.result.val[1] # None
             /\ process' = bk.result.val[1]
             /\ Len(bk.spawns) = 1
             /\ bk.spawns[1][3]]_vars
  /\ [](startRes \in {"none", "absent", "error"} => process = None)
  /\ [](startRes = "handle" => process # None)
  /\ [][startRes # "none" => startRes' = startRes /\ pc' \notin BkLabels]_vars

\* the run has ended with the handle of the one spawned child in the slot
C12_Witness ==
  /\ startRes = "handle"
  /\ process = Some(Child(candidate_paths[1], <<"Resources", "backend", "localbook-backend">>))
  /\ pc = "done"
  /\ status.stage = "error"

\* C13: in every run each stage is entered at most once, except that
\* checking_models and downloading_model alternate, each entered at most
\* once per required model; ready and error are never both entered.
C13_StagesEnteredOnce ==
  /\ [](\A s \in StageSet \ {"checking_models", "downloading_model"} :
          entered[s] <= 1)
  /\ [](entered["downloading_model"] <= NumModels)
  /\ [](entered["checking_models"] <= NumModels)
  /\ [](entered["checking_models"] <= entered["downloading_model"] + 1)
  /\ [](entered["ready"] + entered["error"] <= 1)
  /\ [][status'.stage = "checking_models" /\ status.stage # "checking_models"
          => status.stage \in {"starting_ollama", "downloading_model"}]_vars
  /\ [][status'.stage = "downloading_model" /\ status.stage # "downloading_model"
          => status.stage = "checking_models"]_vars

\* a run that entered checking_models and downloading_model twice each and
\* every other stage but ready once
C13_Witness ==
  /\ pc = "done"
  /\ entered["checking_models"] = 2
  /\ entered["downloading_model"] = 2
  /\ entered["error"] = 1
  /\ entered["waiting_for_backend"] = 1

\* C14: last_error is empty initially and when the sequence begins, and it
\* is given a value only by the update that follows a failed pull, an error
\* returned by start_backend, or the exhaustion of the health probes; while
\* none of these has happened it stays empty.
C14_LastErrorOnlyOnFailure ==
  /\ [](lastCommitted.stage \in {"starting", "starting_ollama"}
          => lastCommitted.last_error = None /\ status.last_error = None)
  /\ [][status'.last_error # status.last_error /\ status'.last_error # None
          => \/ pc = "mdl_blk_failed" /\ mdl.res.tag = "Err"
             \/ pc = "blk_error_start" /\ bk.result.tag = "Err" /\ startRes = "error"
             \/ pc = "blk_error_timeout" /\ wt.result.tag = "Err"]_vars
  /\ [](~fetchFailed /\ startRes # "error" /\ wt.result.tag # "Err"
          => status.last_error = None)

\* last_error has just been set by the update after a failed pull
C14_Witness ==
  /\ pc = "mdl_next"
  /\ mdl.res.tag = "Err"
  /\ lastCommitted.last_error # None
  /\ lastCommitted.stage = "downloading_model"

\* the labels of ensure_ollama_running
OllLabels == {"oll_check", "oll_spawn_next", "oll_spawn", "oll_fallback",
              "oll_wait_next", "oll_wait", "oll_ret"}

\* the labels of ensure_required_models outside the Err arm of the pull
MdlLabelsOutsideErrArm == {"mdl_next", "mdl_blk_checking", "mdl_check",
                           "mdl_blk_downloading", "mdl_pull", "mdl_ret"}

\* the message lib.rs:158 builds for the pull that has just failed
DownloadError ==
  Some(<<"Failed to download ", model_name(mdl.fetches[Len(mdl.fetches)]), ": ">>
       \o mdl.res.val[1])

\* C15 as stated: right after the auxiliary service failed to start or to
\* become ready, a pull failed, the launch erred or the health polling was
\* exhausted, last_error is non-empty.
C15_EveryFailureRecorded ==
  /\ (pc = "oll_ret" /\ (oll.result = "err" \/ oll.warned)
        => status.last_error # None)
  /\ (pc \in MdlLabelsOutsideErrArm /\ mdl.res.tag = "Err"
        => status.last_error # None)
  /\ (pc = "done" /\ startRes = "error" => status.last_error # None)
  /\ (pc = "done" /\ wt.result.tag = "Err" => status.last_error # None)

\* C15 amended: a failed pull, an error from start_backend and exhausted
\* health polling are each followed at once by the update that puts their
\* message in last_error; a failure of the auxiliary service to start or to
\* become ready is only printed, and last_error is still empty when
\* ensure_ollama_running returns.
C15_FailuresRecordedExceptOllama ==
  /\ [](pc \in OllLabels => status.last_error = None)
  /\ [](pc \in MdlLabelsOutsideErrArm /\ mdl.res.tag = "Err"
          => lastCommitted.last_error = DownloadError)
  /\ [](pc = "done" /\ startRes = "error"
          => bk.result.tag = "Err" /\ lastCommitted.last_error = Some(bk.result.val[1]))
  /\ [](pc = "done" /\ wt.result.tag = "Err"
          => lastCommitted.last_error = Some(<<"Backend failed to start within timeout">>))
  /\ [][pc = "mdl_pull" /\ pc' # pc /\ mdl'.res.tag = "Err"
          => pc' = "mdl_blk_failed"]_vars
  /\ [][pc = "bk_ret" /\ pc' # pc /\ bk.result.tag = "Err"
          => pc' = "blk_error_start"]_vars
  /\ [][pc = "wt_ret" /\ pc' # pc /\ wt.result.tag = "Err"
          => pc' = "blk_error_timeout"]_vars

\* every spawn of the auxiliary service failed and last_error is still empty
C15_Witness ==
  /\ pc = "oll_ret"
  /\ oll.result = "err"
  /\ Len(oll.spawns) = 5
  /\ status.last_error = None

BareNameSpawns == {i \in 1..Len(oll.spawns) : oll.spawns[i][1] = "ollama"}

\* C17: the spawn attempts of ensure_ollama_running follow the listed order of
\* the known installation paths, none comes after the first that succeeded,
\* and the bare name is invoked only after all three known paths failed and
\* exactly once: never a second time.
C17_BareNameAttemptedOnce ==
  LET s == oll.spawns IN
  /\ \A i \in 1..Len(s) : s[i][2] => i = Len(s)
  /\ Cardinality({i \in 1..Len(s) : s[i][2]}) <= 1
  /\ \A i \in 1..Len(s) : i <= 3 => s[i][1] = ollama_paths[i]
  /\ \A i \in BareNameSpawns : i > 3 /\ \A j \in 1..3 : ~s[j][2]
  /\ Cardinality(BareNameSpawns) <= 1
  /\ (pc = "oll_ret" /\ Len(s) >= 3 /\ ~s[3][2] => Cardinality(BareNameSpawns) = 1)

\* C18: after a successful spawn at most 10 readiness probes are made, none
\* after the first that succeeds, and the warning is produced exactly when
\* all 10 failed; however ensure_ollama_running ends, the task returns to
\* ensure_required_models, the stage after starting_ollama is
\* checking_models and is reached, and stage error only ever follows an
\* error of start_backend or of wait_for_backend_ready.
C18_OllamaNeverFatal ==
  /\ [](oll.attempt <= 10 /\ oll.waitFailed <= oll.attempt
         /\ oll.attempt <= oll.waitFailed + 1)
  /\ [](oll.attempt > 0 => oll.result = "ok" /\ oll.spawns[Len(oll.spawns)][2])
  /\ [](oll.attempt = oll.waitFailed + 1 /\ pc # "oll_wait" => pc = "oll_ret")
  /\ [](oll.warned <=> pc = "oll_ret" /\ oll.waitFailed = 10)
  /\ [](pc \in OllLabels => status.stage = "starting_ollama")
  /\ [][pc = "oll_ret" /\ pc' # pc => pc' = "mdl_next"]_vars
  /\ [][status.stage = "starting_ollama" /\ status'.stage # status.stage
          => status'.stage = "checking_models"]_vars
  /\ [](status.stage = "error" => startRes = "error" \/ wt.result.tag = "Err")
  /\ (pc \in OllLabels ~> status.stage = "checking_models")

\* spawned from the first known path, ready at the fourth probe, no warning
C18_Witness ==
  /\ pc = "oll_ret"
  /\ oll.spawns = << << ollama_paths[1], TRUE >> >>
  /\ oll.waitFailed = 3
  /\ oll.attempt = 4
  /\ ~oll.warned

\* the directory each candidate's executable lies in, written out
ExpectedDir(c) ==
  IF c = 1 THEN <<"Resources", "backend", "localbook-backend">>
  ELSE <<"Resources", "resources", "backend", "localbook-backend">>

\* C19: whatever subset of the candidates exists, start_backend spawns at
\* most once, the first existing candidate in priority order, with the
\* directory holding that candidate as working directory, and returns right
\* after it: the handle if the spawn succeeded, an error if it failed, never
\* a spawn of a later candidate.
C19_SpawnsFirstExistingCandidate ==
  LET s == bk.spawns IN
  /\ Len(s) <= 1
  /\ (s # <<>> =>
        /\ pc = "bk_ret"
        /\ bk.resolved
        /\ candidate_paths[s[1][1]] \in bk.disk
        /\ \A c \in 1..Len(candidate_paths) :
             c < s[1][1] => candidate_paths[c] \notin bk.disk
        /\ s[1][2] = ExpectedDir(s[1][1])
        /\ IF s[1][3]
           THEN /\ bk.result.tag = "Ok"
                /\ bk.result.val[1] =
                     Some(Child(candidate_paths[s[1][1]], ExpectedDir(s[1][1])))
           ELSE bk.result.tag = "Err")
  /\ (pc = "bk_ret" /\ bk.resolved /\ bk.disk # {} => Len(s) = 1)
  /\ (pc = "bk_ret" /\ bk.resolved /\ bk.disk = {} => s = <<>> /\ bk.result = Ok(None))

\* only the second candidate exists and it was spawned in its own directory
C19_Witness ==
  /\ pc = "bk_ret"
  /\ bk.disk = {candidate_paths[2]}
  /\ bk.spawns = << << 2, <<"Resources", "resources", "backend", "localbook-backend">>, TRUE >> >>

\* the labels at which a step of the task writes the store
StoreWriteLabels ==
  {"blk_starting_ollama", "mdl_blk_checking", "mdl_blk_downloading",
   "mdl_blk_failed", "blk_starting_backend", "bk_ret", "blk_error_start",
   "blk_waiting", "set_ready", "blk_ready", "blk_error_timeout"}

\* C20: no step of is_backend_ready, get_backend_status or
\* check_backend_health changes the status record, the ready flag or the
\* process slot, wherever the task stands; a step that changes one of them is
\* a step of the task; and check_backend_health returns Ok always, Ok(false)
\* when its probe returned an error.
C20_CommandsOnlyRead ==
  /\ [][rd' # rd \/ gs' # gs \/ ch' # ch
          => status' = status /\ ready' = ready /\ process' = process]_vars
  /\ [][status' # status \/ ready' # ready \/ process' # process
          => /\ UNCHANGED callers
             /\ pc \in StoreWriteLabels]_vars
  /\ [](ch.pc = "returned"
          => /\ ch.result.tag = "Ok"
             /\ (ch.probe.tag = "Err" => ch.result.val[1] = FALSE)
             /\ (ch.probe.tag = "Ok" => ch.result = ch.probe))

\* check_backend_health returned false for a failed request while the task
\* was polling the backend
C20_Witness ==
  /\ ch.pc = "returned"
  /\ ch.probe.tag = "Err"
  /\ ch.result = Ok(FALSE)
  /\ pc = "wt_probe"
  /\ wt.calls = 2

====
